---- MODULE Spec2Model ----
(***************************************************************************)
(* vecviz: the embedding ingestion and projection synchronisation          *)
(* pipeline.  The store is the SQLite database of db/db.go (tables         *)
(* prompts, embeddings, projections); the three HTTP handlers of main.go   *)
(* (handleEmbed, handleTSNECompute, handlePoints) run as requests, each on *)
(* its own goroutine, one database statement or external call per step.    *)
(***************************************************************************)
EXTENDS Integers, Sequences, FiniteSets, TLC

\* ---------------------------------------------------------------- bounds
MaxReqs == 4         \* requests accepted in one run when requests overlap
MaxSeqReqs == 5      \* requests accepted in one run, one request at a time

\* ------------------------------------------------------ program constants
EmbeddingDim == 3072         \* embedding float[3072]
StatusOK == 200
StatusBadRequest == 400
StatusMethodNotAllowed == 405
StatusInternalServerError == 500

\* ----------------------------------------------------------------- inputs
\* The requests served at once: two goroutines.
Reqs == {1, 2}
NoReq == 0
SP == " "
\* Prompt texts, as sequences of characters: empty, whitespace-only, a word.
Texts == {<<>>, <<SP>>, <<"a">>}
Methods == {"POST", "GET"}
\* The (x, y, z) triples the projection engine may produce.
Coords == {<<1, 1, 1>>, <<2, 2, 2>>}
\* The vectors the provider may return, each a length and a content: the model
\* gives 3072 numbers, the same at every call.
ProviderVectors == {[dim |-> EmbeddingDim, val |-> 1]}
NoVector == [dim |-> 0, val |-> 0]
\* What else the provider's JSON may hold: other numbers for a text it has
\* embedded before, and a vector of another length (GetEmbedding checks neither).
OtherVectors == {[dim |-> EmbeddingDim, val |-> 2], [dim |-> EmbeddingDim - 1, val |-> 1]}

VARIABLES
    prompts,        \* table prompts: set of rows [id, text]
    seq,            \* sqlite_sequence of prompts (AUTOINCREMENT)
    embeddings,     \* table embeddings: prompt_id -> vector
    projections,    \* table projections as every connection reads it
    txOwner,        \* the request whose transaction holds the write lock
    txRows,         \* that transaction's uncommitted projections
    pc,             \* each request's position in its handler
    req,            \* each request's input: kind and prompt text
    loc,            \* each request's local variables
    conc,           \* how many requests the server runs at once
    started,        \* requests accepted so far
    \* History, for stating the properties:
    pre,            \* the store as the request found it (kept when conc = 1)
    mark,           \* what has happened around each request since it arrived
    hist,           \* what the finished requests did
    last            \* the response just sent (NoEvent after any other step)

vars == <<prompts, seq, embeddings, projections, txOwner, txRows, pc, req, loc,
          conc, started, pre, mark, hist, last>>

store == <<prompts, seq, embeddings, projections>>

\* --------------------------------------------------------------- helpers
Min(S) == CHOOSE x \in S : \A y \in S : x <= y

RECURSIVE SortedSeq(_)
SortedSeq(S) == IF S = {} THEN <<>> ELSE <<Min(S)>> \o SortedSeq(S \ {Min(S)})

Range(s) == {s[i] : i \in DOMAIN s}

NoInput == [kind |-> "none", text |-> <<>>]
NoLoc == [existingID |-> 0, embedCount |-> 0, projCount |-> 0,
          embedding |-> NoVector, rows |-> <<>>, i |-> 0, dropped |-> FALSE]
NoSnap == [prompts |-> {}, embeddings |-> <<>>, projections |-> <<>>]
Snapshot == [prompts |-> prompts, embeddings |-> embeddings,
             projections |-> projections]
\* A response: the request it answers, the HTTP status, the JSON fields (id,
\* embedding_dim, needs_tsne_update / needs_update, points_processed, points),
\* and what the handler did on the way: the store it found, whether it added an
\* embedding, whether it called the projection engine.
NoEvent == [kind |-> "none", text |-> <<>>, status |-> 0, err |-> "", id |-> 0,
            dim |-> 0, val |-> 0, flag |-> FALSE, n |-> 0, points |-> <<>>, pre |-> NoSnap,
            added |-> FALSE, called |-> FALSE, quiet |-> FALSE, stale |-> FALSE,
            dropped |-> FALSE]
\* quiet, of a recompute: no ingest has run since it arrived; of a listPoints: no
\* ingest has run since the recomputes before it arrived, nor since those that
\* completed while it ran.  stale: an embedding was added before the request
\* arrived and no recompute has completed since.
NoMark == [quiet |-> FALSE, stale |-> FALSE]
Accepted == {t \in Texts : t /= <<>>}
\* returned: the ids the successful ingests of a text returned, in order;
\* failedId: the id the text had when its ingest failed at the provider (both
\* kept when conc = 1).  synced: a recompute completed and no ingest has run
\* since it began.  stale: an embedding was added and no recompute has completed
\* since.  committed: the rows of the last committed replacement.  covered: the
\* ids projected by the recomputes that completed with no ingest beside them
\* (so the ids whose embeddings were stored when such a recompute arrived).
NoHist == [returned |-> [t \in Accepted |-> <<>>], failedId |-> [t \in Accepted |-> 0],
           synced |-> FALSE, stale |-> FALSE, committed |-> <<>>, covered |-> {}]

Active == {r \in Reqs : pc[r] /= "idle"}
ActiveEmbeds == {r \in Active : req[r].kind = "embed"}
Budget == IF conc = 1 THEN MaxSeqReqs ELSE MaxReqs

\* ------------------------------------------------------------ db/db.go
\* SELECT id FROM prompts WHERE text = ?
PromptIdsOf(text) == {p.id : p \in {q \in prompts : q.text = text}}

\* Variant with a slip: the id scanned from the row is not the one returned.
SelectedIdZero(text) == 0

SelectedId(text) == CHOOSE i \in PromptIdsOf(text) : TRUE

\* Variant with a slip: the column is declared without UNIQUE.
UniqueViolationNever(text) == FALSE

\* text TEXT NOT NULL UNIQUE
UniqueViolation(text) == PromptIdsOf(text) /= {}

\* id INTEGER PRIMARY KEY AUTOINCREMENT: one more than the largest id ever used
LastInsertId == seq + 1

\* InsertPrompt's "return 0, err"
InsertPromptFailedId == 0

\* A float32 takes four bytes of a blob.
FloatBytes == 4

\* sqlite_vec.SerializeFloat32: the vector's numbers, four bytes each.  A blob
\* is modelled by its length in bytes and the value that stands for its numbers.
SerializeFloat32(embedding) ==
    [len |-> FloatBytes * embedding.dim, val |-> embedding.val]

\* deserializeFloat32: a blob whose length is not a multiple of 4 gives
\* (nil, nil); any other blob gives its len/4 numbers (binary.Read cannot fail
\* on a reader of exactly that length).
deserializeFloat32(blob) ==
    IF blob.len % FloatBytes /= 0
    THEN [vector |-> NoVector, err |-> FALSE]
    ELSE [vector |-> [dim |-> blob.len \div FloatBytes, val |-> blob.val],
          err |-> FALSE]

\* INSERT INTO embeddings: prompt_id is the primary key and the column is
\* float[3072]; a second row for the id or a vector of another length is an error
\* and writes nothing.
InsertEmbeddingFails(promptID, embedding) ==
    \/ promptID \in DOMAIN embeddings
    \/ embedding.dim /= EmbeddingDim

\* Variant with a slip: INSERT OR REPLACE, the row of the id is overwritten.
InsertEmbeddingReplaces(promptID, embedding) ==
    IF embedding.dim /= EmbeddingDim
    THEN embeddings
    ELSE [i \in DOMAIN embeddings \cup {promptID} |->
            IF i = promptID THEN SerializeFloat32(embedding) ELSE embeddings[i]]

InsertEmbedding(promptID, embedding) ==
    IF InsertEmbeddingFails(promptID, embedding)
    THEN embeddings
    ELSE embeddings @@ (promptID :> SerializeFloat32(embedding))

\* SELECT COUNT(*) FROM embeddings
GetEmbeddingCount == Cardinality(DOMAIN embeddings)

\* SELECT COUNT(*) FROM projections
GetProjectionCount == Cardinality(DOMAIN projections)

\* GetAllEmbeddings returns an error when deserializeFloat32 does.
GetAllEmbeddingsFails == \E i \in DOMAIN embeddings : deserializeFloat32(embeddings[i]).err

\* SELECT prompt_id, embedding FROM embeddings, each blob decoded
GetAllEmbeddings ==
    LET ids == SortedSeq(DOMAIN embeddings)
    IN  [i \in DOMAIN ids |->
            [id |-> ids[i], vector |-> deserializeFloat32(embeddings[ids[i]]).vector]]

\* SELECT ... FROM projections p JOIN prompts pr ON p.prompt_id = pr.id
\* ORDER BY p.prompt_id
GetAllProjections ==
    LET ids == SortedSeq({i \in DOMAIN projections : \E p \in prompts : p.id = i})
    IN  [i \in DOMAIN ids |->
            [id |-> ids[i],
             text |-> (CHOOSE p \in prompts : p.id = ids[i]).text,
             c |-> projections[ids[i]]]]

\* Variant with a slip: a writer does not wait for the transaction in progress.
WriteLockedNever == FALSE

\* SQLite has one writer at a time: a write statement waits while another
\* connection's transaction holds the write lock.
WriteLocked == txOwner /= NoReq

\* InsertProjections runs in a transaction: its statements change the
\* transaction's rows, and the table every connection reads changes at Commit.
\* Each operator gives the table and the transaction's rows after the statement.
\* tx.Exec("DELETE FROM projections")
TxDelete == [table |-> projections, rows |-> <<>>]

\* prompt_id INTEGER PRIMARY KEY: a second row for the id fails
TxInsertFails(p) == p.id \in DOMAIN txRows

\* Variant with a slip: the row is written under the id after the point's.
TxInsertNextId(p) == [table |-> projections, rows |-> txRows @@ ((p.id + 1) :> p.c)]

\* stmt.Exec(p.PromptID, p.X, p.Y, p.Z)
TxInsert(p) == [table |-> projections, rows |-> txRows @@ (p.id :> p.c)]

\* Variant with a slip: InsertProjections returns without committing.
TxCommitMissing == [table |-> projections, rows |-> <<>>]

\* return tx.Commit()
TxCommit == [table |-> txRows, rows |-> <<>>]

\* Variant with a slip: the statements ran outside a transaction, nothing is undone.
TxRollbackKeeps == [table |-> txRows, rows |-> <<>>]

\* defer tx.Rollback(), after an error
TxRollback == [table |-> projections, rows |-> <<>>]

\* ---------------------------------------------------------- tsne/runner.go
\* The script's result for the embeddings: one (id, x, y, z) per input, in the
\* input's order, with the coordinates cs it computed.
Project(input, cs) == [i \in DOMAIN input |-> [id |-> input[i].id, c |-> cs[i]]]

\* ComputeTSNE: nothing to do for no embeddings, else the script's output.
ComputeTSNE(input, cs) == IF Len(input) = 0 THEN <<>> ELSE Project(input, cs)

\* --------------------------------------------------------------- main.go
\* Variant with a slip: the comparison is the wrong way round.
NeedsTsneUpdateLess(embedCount, projCount) == embedCount < projCount

\* "needs_tsne_update": embedCount != projCount, "needs_update" likewise
NeedsTsneUpdate(embedCount, projCount) == embedCount /= projCount

\* ------------------------------------------------------------- requests
\* The messages of the handlers' http.Error calls.
ErrMethod == "Method not allowed"
ErrJSON == "Invalid JSON"
ErrPrompt == "Prompt is required"
ErrOllama == "Failed to get embedding"
ErrTSNE == "t-SNE failed"
ErrStore == "Failed to store projections"
ErrEmbeddings == "Failed to get embeddings"
ErrProjections == "Failed to get projections"

FreeSlot(r) ==
    /\ pc[r] = "idle"
    /\ r = Min({q \in Reqs : pc[q] = "idle"})
    /\ started < Budget
    /\ Cardinality(Active) < conc

\* net/http serves each request on its own goroutine; slots are taken lowest first.
Accept(r, kind, text, label) ==
    /\ FreeSlot(r)
    /\ started' = started + 1
    /\ pc' = [pc EXCEPT ![r] = label]
    /\ req' = [req EXCEPT ![r] = [kind |-> kind, text |-> text]]
    /\ pre' = [pre EXCEPT ![r] = IF conc = 1 THEN Snapshot ELSE NoSnap]
    /\ mark' = [q \in Reqs |->
                  IF q = r
                  THEN [quiet |-> CASE kind = "tsne" -> ActiveEmbeds = {}
                                    [] kind = "points" -> hist.synced
                                    [] OTHER -> FALSE,
                        stale |-> kind = "points" /\ hist.stale]
                  ELSE IF kind = "embed" THEN [mark[q] EXCEPT !.quiet = FALSE]
                  ELSE mark[q]]
    /\ hist' = IF kind = "embed" THEN [hist EXCEPT !.synced = FALSE] ELSE hist
    /\ last' = NoEvent
    /\ UNCHANGED <<loc, conc>>

\* A request answered on arrival (method, JSON or prompt rejected).
Reject(r, kind, text, status, err) ==
    /\ FreeSlot(r)
    /\ started' = started + 1
    /\ last' = [NoEvent EXCEPT !.kind = kind, !.text = text, !.status = status,
                               !.err = err,
                               !.pre = IF conc = 1 THEN Snapshot ELSE NoSnap]
    /\ UNCHANGED <<pc, req, loc, pre, mark, hist, conc>>

\* The handler writes its response and returns; its locals go out of scope.
Reply(r, status, body) ==
    LET kind == req[r].kind
        text == req[r].text
        recomputed == kind = "tsne" /\ status = StatusOK
    IN  /\ pc' = [pc EXCEPT ![r] = "idle"]
        /\ req' = [req EXCEPT ![r] = NoInput]
        /\ loc' = [loc EXCEPT ![r] = NoLoc]
        /\ pre' = [pre EXCEPT ![r] = NoSnap]
        /\ mark' = [q \in Reqs |->
                      IF q = r THEN NoMark
                      ELSE IF recomputed
                      THEN [quiet |-> mark[q].quiet
                                        /\ (req[q].kind = "points" => mark[r].quiet),
                            stale |-> FALSE]
                      ELSE mark[q]]
        /\ hist' = [returned |->
                        IF conc = 1 /\ kind = "embed" /\ status = StatusOK
                        THEN [hist.returned EXCEPT ![text] = Append(@, body.id)]
                        ELSE hist.returned,
                    failedId |->
                        IF conc = 1 /\ kind = "embed" /\ body.err = ErrOllama
                        THEN [hist.failedId EXCEPT ![text] = loc[r].existingID]
                        ELSE hist.failedId,
                    synced |-> IF recomputed THEN mark[r].quiet ELSE hist.synced,
                    stale |-> IF kind = "embed" /\ body.added THEN TRUE
                              ELSE IF recomputed THEN FALSE
                              ELSE hist.stale,
                    committed |-> IF recomputed /\ body.called THEN txRows
                                  ELSE hist.committed,
                    covered |-> IF recomputed /\ mark[r].quiet
                                THEN hist.covered \cup {body.points[k].id : k \in DOMAIN body.points}
                                ELSE hist.covered]
        /\ last' = [body EXCEPT !.kind = kind, !.text = text, !.status = status,
                                !.pre = pre[r], !.quiet = mark[r].quiet,
                                !.stale = mark[r].stale,
                                !.dropped = body.dropped \/ loc[r].dropped]
        /\ UNCHANGED <<conc, started>>

Goto(r, label) ==
    /\ pc' = [pc EXCEPT ![r] = label]
    /\ last' = NoEvent
    /\ UNCHANGED <<req, pre, mark, hist, conc, started>>

Running(r, label) == pc[r] = label

\* ---------------------------------------------------------- handleEmbed
\* if req.Prompt == "" { http.Error(w, "Prompt is required", 400); return }
PromptRejected(text) == text = <<>>

\* Variant with a slip: the embedding is stored before the error is looked at.
OllamaFailureStores(r) ==
    /\ Reply(r, StatusInternalServerError,
             [NoEvent EXCEPT !.err = ErrOllama, !.called = TRUE])
    /\ embeddings' = InsertEmbedding(loc[r].existingID, [NoVector EXCEPT !.dim = EmbeddingDim])
    /\ UNCHANGED <<prompts, seq, projections>>

\* if err != nil { http.Error(w, "Failed to get embedding", 500); return }
OllamaFailure(r) ==
    /\ Reply(r, StatusInternalServerError,
             [NoEvent EXCEPT !.err = ErrOllama, !.called = TRUE])
    /\ UNCHANGED store

\* The request arrives: method check, JSON decoding, the empty-prompt check.
EmbedStart(r) ==
    \E m \in Methods, ok \in BOOLEAN, t \in Texts :
        /\ IF m /= "POST"
           THEN Reject(r, "embed", <<>>, StatusMethodNotAllowed, ErrMethod)
           ELSE IF ~ok THEN Reject(r, "embed", <<>>, StatusBadRequest, ErrJSON)
           ELSE IF PromptRejected(t)
           THEN Reject(r, "embed", t, StatusBadRequest, ErrPrompt)
           ELSE Accept(r, "embed", t, "e_select")
        /\ UNCHANGED <<store, txOwner, txRows>>

\* InsertPrompt, the SELECT: an existing row's id is returned at once.
EmbedSelect(r) ==
    /\ Running(r, "e_select")
    /\ IF PromptIdsOf(req[r].text) /= {}
       THEN /\ loc' = [loc EXCEPT ![r].existingID = SelectedId(req[r].text)]
            /\ Goto(r, "e_ecount")
       ELSE /\ loc' = loc
            /\ Goto(r, "e_insert")
    /\ UNCHANGED <<store, txOwner, txRows>>

\* InsertPrompt, the INSERT (it waits for the write lock).  text is UNIQUE: when
\* the row exists by now the statement fails, InsertPrompt returns (0, err) and
\* handleEmbed drops the error.
EmbedInsert(r) ==
    /\ Running(r, "e_insert")
    /\ ~WriteLocked
    /\ IF UniqueViolation(req[r].text)
       THEN /\ loc' = [loc EXCEPT ![r].existingID = InsertPromptFailedId]
            /\ UNCHANGED <<prompts, seq>>
       ELSE /\ loc' = [loc EXCEPT ![r].existingID = LastInsertId]
            /\ prompts' = prompts \cup {[id |-> LastInsertId, text |-> req[r].text]}
            /\ seq' = LastInsertId
    /\ Goto(r, "e_ecount")
    /\ UNCHANGED <<embeddings, projections, txOwner, txRows>>

\* embedCount, _ := db.GetEmbeddingCount()
EmbedCountEmbeddings(r) ==
    /\ Running(r, "e_ecount")
    /\ loc' = [loc EXCEPT ![r].embedCount = GetEmbeddingCount]
    /\ Goto(r, "e_pcount")
    /\ UNCHANGED <<store, txOwner, txRows>>

\* projCount, _ := db.GetProjectionCount()
EmbedCountProjections(r) ==
    /\ Running(r, "e_pcount")
    /\ loc' = [loc EXCEPT ![r].projCount = GetProjectionCount]
    /\ Goto(r, "e_ollama")
    /\ UNCHANGED <<store, txOwner, txRows>>

\* ollamaClient.GetEmbedding returns a vector.
EmbedOllamaOk(r) ==
    \E v \in ProviderVectors :
        /\ Running(r, "e_ollama")
        /\ loc' = [loc EXCEPT ![r].embedding = v]
        /\ Goto(r, "e_store")
        /\ UNCHANGED <<store, txOwner, txRows>>

\* ollamaClient.GetEmbedding returns one of the other vectors.
EmbedOllamaOther(r) ==
    \E v \in OtherVectors :
        /\ Running(r, "e_ollama")
        /\ loc' = [loc EXCEPT ![r].embedding = v]
        /\ Goto(r, "e_store")
        /\ UNCHANGED <<store, txOwner, txRows>>

\* ollamaClient.GetEmbedding returns an error: 500, nothing more is done.
EmbedOllamaFail(r) ==
    /\ Running(r, "e_ollama")
    /\ OllamaFailure(r)
    /\ UNCHANGED <<txOwner, txRows>>

\* Variant with a slip: storing an embedding also empties the projections.
EmbedStoreClears(r) ==
    /\ Running(r, "e_store")
    /\ ~WriteLocked
    /\ embeddings' = InsertEmbedding(loc[r].existingID, loc[r].embedding)
    /\ projections' = IF embeddings' /= embeddings THEN <<>> ELSE projections
    /\ Reply(r, StatusOK,
             [NoEvent EXCEPT
                 !.id = loc[r].existingID,
                 !.dim = loc[r].embedding.dim,
                 !.val = loc[r].embedding.val,
                 !.flag = NeedsTsneUpdate(loc[r].embedCount, loc[r].projCount),
                 !.added = embeddings' /= embeddings,
                 !.called = TRUE])
    /\ UNCHANGED <<prompts, seq, txOwner, txRows>>

\* db.InsertEmbedding (its error is logged and dropped), then the response.
EmbedStore(r) ==
    /\ Running(r, "e_store")
    /\ ~WriteLocked
    /\ embeddings' = InsertEmbedding(loc[r].existingID, loc[r].embedding)
    /\ Reply(r, StatusOK,
             [NoEvent EXCEPT
                 !.id = loc[r].existingID,
                 !.dim = loc[r].embedding.dim,
                 !.val = loc[r].embedding.val,
                 !.flag = NeedsTsneUpdate(loc[r].embedCount, loc[r].projCount),
                 !.added = embeddings' /= embeddings,
                 !.called = TRUE])
    /\ UNCHANGED <<prompts, seq, projections, txOwner, txRows>>

HandleEmbed(r) ==
    \/ EmbedStart(r)
    \/ EmbedSelect(r)
    \/ EmbedInsert(r)
    \/ EmbedCountEmbeddings(r)
    \/ EmbedCountProjections(r)
    \/ EmbedOllamaOk(r)
    \/ EmbedOllamaFail(r)
    \/ EmbedStore(r)

\* ---------------------------------------------------- handleTSNECompute
\* Variant with a slip: the early return is missing.
NothingToProjectNever(rows) == FALSE

\* if len(embeddings) == 0: "points_processed": 0
NothingToProject(rows) == Len(rows) = 0

\* Variant with a slip: the old projections were cleared before the engine ran.
TSNEFailureClears(r) ==
    /\ Reply(r, StatusInternalServerError,
             [NoEvent EXCEPT !.err = ErrTSNE, !.called = TRUE])
    /\ projections' = <<>>
    /\ UNCHANGED <<prompts, seq, embeddings, txOwner, txRows>>

\* if err != nil { http.Error(w, "t-SNE failed", 500); return }
TSNEFailure(r) ==
    /\ Reply(r, StatusInternalServerError,
             [NoEvent EXCEPT !.err = ErrTSNE, !.called = TRUE])
    /\ UNCHANGED <<store, txOwner, txRows>>

TsneStart(r) ==
    \E m \in Methods :
        /\ IF m /= "POST"
           THEN Reject(r, "tsne", <<>>, StatusMethodNotAllowed, ErrMethod)
           ELSE Accept(r, "tsne", <<>>, "t_read")
        /\ UNCHANGED <<store, txOwner, txRows>>

\* db.GetAllEmbeddings(), and the early return when there are none.
TsneRead(r) ==
    /\ Running(r, "t_read")
    /\ IF GetAllEmbeddingsFails
       THEN Reply(r, StatusInternalServerError, [NoEvent EXCEPT !.err = ErrEmbeddings])
       ELSE IF NothingToProject(GetAllEmbeddings)
       THEN Reply(r, StatusOK, NoEvent)
       ELSE /\ loc' = [loc EXCEPT ![r].rows = GetAllEmbeddings]
            /\ Goto(r, "t_engine")
    /\ UNCHANGED <<store, txOwner, txRows>>

\* tsne.ComputeTSNE returns the projections; they are converted and
\* InsertProjections begins its transaction.
TsneEngineOk(r) ==
    \E cs \in [DOMAIN loc[r].rows -> Coords] :
        /\ Running(r, "t_engine")
        /\ loc' = [loc EXCEPT ![r].rows = ComputeTSNE(loc[r].rows, cs), ![r].i = 1]
        /\ Goto(r, "t_delete")
        /\ UNCHANGED <<store, txOwner, txRows>>

\* tsne.ComputeTSNE returns an error.
TsneEngineFail(r) ==
    /\ Running(r, "t_engine")
    /\ TSNEFailure(r)

\* DELETE FROM projections: the transaction takes the write lock.
TsneDelete(r) ==
    /\ Running(r, "t_delete")
    /\ ~WriteLocked
    /\ txOwner' = r
    /\ projections' = TxDelete.table
    /\ txRows' = TxDelete.rows
    /\ loc' = loc
    /\ Goto(r, "t_insert")
    /\ UNCHANGED <<prompts, seq, embeddings>>

\* One INSERT of the loop; an error rolls the transaction back: 500.
TsneInsert(r) ==
    /\ Running(r, "t_insert")
    /\ loc[r].i <= Len(loc[r].rows)
    /\ LET p == loc[r].rows[loc[r].i]
       IN  IF TxInsertFails(p)
           THEN /\ projections' = TxRollback.table
                /\ txRows' = TxRollback.rows
                /\ txOwner' = NoReq
                /\ Reply(r, StatusInternalServerError,
                         [NoEvent EXCEPT !.err = ErrStore, !.called = TRUE])
           ELSE /\ projections' = TxInsert(p).table
                /\ txRows' = TxInsert(p).rows
                /\ txOwner' = txOwner
                /\ loc' = [loc EXCEPT ![r].i = @ + 1]
                /\ Goto(r, "t_insert")
    /\ UNCHANGED <<prompts, seq, embeddings>>

\* tx.Commit(), then the response with points_processed.
TsneCommit(r) ==
    /\ Running(r, "t_insert")
    /\ loc[r].i > Len(loc[r].rows)
    /\ projections' = TxCommit.table
    /\ txRows' = TxCommit.rows
    /\ txOwner' = NoReq
    /\ Reply(r, StatusOK,
             [NoEvent EXCEPT !.n = Len(loc[r].rows), !.points = loc[r].rows,
                             !.called = TRUE])
    /\ UNCHANGED <<prompts, seq, embeddings>>

HandleTSNECompute(r) ==
    \/ TsneStart(r)
    \/ TsneRead(r)
    \/ TsneEngineOk(r)
    \/ TsneEngineFail(r)
    \/ TsneDelete(r)
    \/ TsneInsert(r)
    \/ TsneCommit(r)

\* The script prints a row twice: ComputeTSNE parses and returns what it printed.
TsneEngineRepeats(r) ==
    \E cs \in [DOMAIN loc[r].rows -> Coords] :
        /\ Running(r, "t_engine")
        /\ LET out == ComputeTSNE(loc[r].rows, cs)
           IN  loc' = [loc EXCEPT ![r].rows = Append(out, out[1]), ![r].i = 1]
        /\ Goto(r, "t_delete")
        /\ UNCHANGED <<store, txOwner, txRows>>

\* A statement of InsertProjections (Begin, DELETE, an INSERT, Commit) fails in
\* the database: the deferred Rollback undoes the transaction, 500.
TsneStoreFail(r) ==
    /\ \/ Running(r, "t_delete")
       \/ Running(r, "t_insert")
    /\ projections' = TxRollback.table
    /\ txRows' = IF txOwner = r THEN TxRollback.rows ELSE txRows
    /\ txOwner' = IF txOwner = r THEN NoReq ELSE txOwner
    /\ Reply(r, StatusInternalServerError,
             [NoEvent EXCEPT !.err = ErrStore, !.called = TRUE])
    /\ UNCHANGED <<prompts, seq, embeddings>>

\* ---------------------------------------------------------- handlePoints
PointsStart(r) ==
    \E m \in Methods :
        /\ IF m /= "GET"
           THEN Reject(r, "points", <<>>, StatusMethodNotAllowed, ErrMethod)
           ELSE Accept(r, "points", <<>>, "p_read")
        /\ UNCHANGED <<store, txOwner, txRows>>

\* db.GetAllProjections()
PointsRead(r) ==
    /\ Running(r, "p_read")
    /\ loc' = [loc EXCEPT ![r].rows = GetAllProjections]
    /\ Goto(r, "p_ecount")
    /\ UNCHANGED <<store, txOwner, txRows>>

\* embedCount, _ := db.GetEmbeddingCount()
PointsCountEmbeddings(r) ==
    /\ Running(r, "p_ecount")
    /\ loc' = [loc EXCEPT ![r].embedCount = GetEmbeddingCount]
    /\ Goto(r, "p_pcount")
    /\ UNCHANGED <<store, txOwner, txRows>>

\* projCount, _ := db.GetProjectionCount(), then the response.
PointsCountProjections(r) ==
    /\ Running(r, "p_pcount")
    /\ Reply(r, StatusOK,
             [NoEvent EXCEPT
                 !.points = loc[r].rows,
                 !.n = loc[r].embedCount,
                 !.flag = NeedsTsneUpdate(loc[r].embedCount, GetProjectionCount)])
    /\ UNCHANGED <<store, txOwner, txRows>>

HandlePoints(r) ==
    \/ PointsStart(r)
    \/ PointsRead(r)
    \/ PointsCountEmbeddings(r)
    \/ PointsCountProjections(r)

\* ------------------------------------------------- the database fails
\* What a count function returns next to its error: var count int, never scanned.
CountFailed == 0

\* existingID, _ := db.InsertPrompt(...): the SELECT or the INSERT fails in the
\* database, InsertPrompt returns (0, err) and the error is dropped.
EmbedPromptFail(r) ==
    /\ \/ Running(r, "e_select")
       \/ Running(r, "e_insert")
    /\ loc' = [loc EXCEPT ![r].existingID = InsertPromptFailedId, ![r].dropped = TRUE]
    /\ Goto(r, "e_ecount")
    /\ UNCHANGED <<store, txOwner, txRows>>

\* embedCount, _ := / projCount, _ := in handleEmbed: the query fails, the
\* count is 0 and the error is dropped.
EmbedCountFail(r) ==
    /\ \/ /\ Running(r, "e_ecount")
          /\ loc' = [loc EXCEPT ![r].embedCount = CountFailed, ![r].dropped = TRUE]
          /\ Goto(r, "e_pcount")
       \/ /\ Running(r, "e_pcount")
          /\ loc' = [loc EXCEPT ![r].projCount = CountFailed, ![r].dropped = TRUE]
          /\ Goto(r, "e_ollama")
    /\ UNCHANGED <<store, txOwner, txRows>>

\* db.InsertEmbedding fails in the database: logged, and the response is 200.
EmbedStoreFail(r) ==
    /\ Running(r, "e_store")
    /\ Reply(r, StatusOK,
             [NoEvent EXCEPT
                 !.id = loc[r].existingID,
                 !.dim = loc[r].embedding.dim,
                 !.val = loc[r].embedding.val,
                 !.flag = NeedsTsneUpdate(loc[r].embedCount, loc[r].projCount),
                 !.called = TRUE])
    /\ UNCHANGED <<store, txOwner, txRows>>

\* db.GetAllEmbeddings fails: 500.
TsneReadFail(r) ==
    /\ Running(r, "t_read")
    /\ Reply(r, StatusInternalServerError, [NoEvent EXCEPT !.err = ErrEmbeddings])
    /\ UNCHANGED <<store, txOwner, txRows>>

\* db.GetAllProjections fails: 500.
PointsReadFail(r) ==
    /\ Running(r, "p_read")
    /\ Reply(r, StatusInternalServerError, [NoEvent EXCEPT !.err = ErrProjections])
    /\ UNCHANGED <<store, txOwner, txRows>>

\* embedCount, _ := / projCount, _ := in handlePoints: the query fails, the
\* count is 0 and the error is dropped.
PointsCountFail(r) ==
    /\ \/ /\ Running(r, "p_ecount")
          /\ loc' = [loc EXCEPT ![r].embedCount = CountFailed, ![r].dropped = TRUE]
          /\ Goto(r, "p_pcount")
       \/ /\ Running(r, "p_pcount")
          /\ Reply(r, StatusOK,
                   [NoEvent EXCEPT
                       !.points = loc[r].rows,
                       !.n = loc[r].embedCount,
                       !.flag = NeedsTsneUpdate(loc[r].embedCount, CountFailed),
                       !.dropped = TRUE])
    /\ UNCHANGED <<store, txOwner, txRows>>

StoreFault(r) ==
    \/ EmbedPromptFail(r)
    \/ EmbedCountFail(r)
    \/ EmbedStoreFail(r)
    \/ TsneReadFail(r)
    \/ TsneStoreFail(r)
    \/ PointsReadFail(r)
    \/ PointsCountFail(r)

\* ------------------------------------------------------- specifications
InitStore ==
    /\ prompts = {}
    /\ seq = 0
    /\ embeddings = <<>>
    /\ projections = <<>>
    /\ txOwner = NoReq
    /\ txRows = <<>>
    /\ pc = [r \in Reqs |-> "idle"]
    /\ req = [r \in Reqs |-> NoInput]
    /\ loc = [r \in Reqs |-> NoLoc]
    /\ started = 0
    /\ pre = [r \in Reqs |-> NoSnap]
    /\ mark = [r \in Reqs |-> NoMark]
    /\ hist = NoHist
    /\ last = NoEvent

\* Requests overlap.
Init == InitStore /\ conc = Cardinality(Reqs)

\* One request at a time.
InitSeq == InitStore /\ conc = 1

Next == \E r \in Reqs : HandleEmbed(r) \/ HandleTSNECompute(r) \/ HandlePoints(r)

Spec == Init /\ [][Next]_vars

SpecSeq == InitSeq /\ [][Next]_vars

\* The database may fail a statement of a replacement and the script may break
\* its contract.
NextFault == Next \/ \E r \in Reqs : TsneEngineRepeats(r) \/ TsneStoreFail(r)

SpecFault == Init /\ [][NextFault]_vars

\* One request at a time, and the provider may return any vector.
NextProvider == Next \/ \E r \in Reqs : EmbedOllamaOther(r)

SpecProvider == InitSeq /\ [][NextProvider]_vars

\* One request at a time, and any statement sent to the database may fail.
NextStoreFault == Next \/ \E r \in Reqs : StoreFault(r)

SpecStoreFault == InitSeq /\ [][NextStoreFault]_vars

\* The blobs the embeddings table of the database file may hold at start-up
\* (db.Init opens the file it finds): a vector as InsertEmbedding writes it, and
\* blobs cut short or grown by a byte or two.
StoredBlobs ==
    {SerializeFloat32(v) : v \in ProviderVectors}
        \cup {[len |-> FloatBytes * EmbeddingDim - 1, val |-> 1],
              [len |-> FloatBytes * EmbeddingDim + 2, val |-> 1]}

\* One request at a time, on a database file that holds one prompt and its blob.
InitDecode ==
    /\ prompts = {[id |-> 1, text |-> <<"a">>]}
    /\ seq = 1
    /\ embeddings \in {(1 :> b) : b \in StoredBlobs}
    /\ projections = <<>>
    /\ txOwner = NoReq
    /\ txRows = <<>>
    /\ pc = [r \in Reqs |-> "idle"]
    /\ req = [r \in Reqs |-> NoInput]
    /\ loc = [r \in Reqs |-> NoLoc]
    /\ started = 0
    /\ pre = [r \in Reqs |-> NoSnap]
    /\ mark = [r \in Reqs |-> NoMark]
    /\ hist = NoHist
    /\ last = NoEvent
    /\ conc = 1

SpecDecode == InitDecode /\ [][Next]_vars

\* --------------------------------------------------------------- properties
Blank(text) == \A i \in DOMAIN text : text[i] = SP
PromptRows(text) == {p \in prompts : p.text = text}
Answered(kind, status) == last.kind = kind /\ last.status = status

\* C1: one request at a time, the successful ingests of a text all return the
\* same prompt_id; from the second on they add no embedding, and the store holds
\* exactly one Prompt with that text and an Embedding under that id.
C1_IngestTwice ==
    \A t \in Accepted :
        LET ids == hist.returned[t]
        IN  Len(ids) >= 2 =>
              /\ \A i \in DOMAIN ids : ids[i] = ids[1]
              /\ Cardinality(PromptRows(t)) = 1
              /\ PromptIdsOf(t) = {ids[1]}
              /\ ids[1] \in DOMAIN embeddings
              /\ (Answered("embed", StatusOK) /\ last.text = t => ~last.added)

C1_Witness ==
    /\ Answered("embed", StatusOK)
    /\ Len(hist.returned[last.text]) >= 2

\* C2: with overlapping requests, every successful ingest returns the id of the
\* one Prompt row that holds its text.
C2_ConcurrentIngestSameId ==
    Answered("embed", StatusOK) => PromptIdsOf(last.text) = {last.id}

\* C3: when a recompute completes successfully and no ingest ran while it did,
\* the projection count equals the embedding count; a listPoints that follows
\* with no ingest in between reports needs_update = false.
C3_RecomputeSyncs ==
    /\ Answered("tsne", StatusOK) /\ last.quiet
          => GetProjectionCount = GetEmbeddingCount
    /\ Answered("points", StatusOK) /\ last.quiet => last.flag = FALSE

C3_Witness ==
    /\ Answered("points", StatusOK)
    /\ last.quiet
    /\ Len(last.points) >= 1

\* C4: from the ingest that adds an embedding until the next recompute completes
\* successfully, the counts differ in every state, and a listPoints that runs
\* wholly in that span reports needs_update = true.
C4_StaleUntilRecompute ==
    /\ hist.stale => NeedsTsneUpdate(GetEmbeddingCount, GetProjectionCount)
    /\ Answered("points", StatusOK) /\ last.stale => last.flag = TRUE

C4_Witness ==
    /\ Answered("points", StatusOK)
    /\ last.stale
    /\ Len(last.points) >= 1

\* C5: a successful ingest that added an embedding returns needs_recompute = true.
C5_NeedsRecomputeAfterAdd ==
    Answered("embed", StatusOK) /\ last.added => last.flag = TRUE

\* C6: one request at a time, a recompute whose engine call fails answers 500
\* and leaves the projections as it found them.
C6_EngineFailureKeepsProjections ==
    last.kind = "tsne" /\ last.err = ErrTSNE =>
        /\ last.status = StatusInternalServerError
        /\ projections = last.pre.projections

C6_Witness ==
    /\ last.kind = "tsne"
    /\ last.err = ErrTSNE
    /\ projections /= <<>>

\* C7: the projections any connection reads are always the rows of the last
\* committed replacement: never the rows of one in progress, and unchanged by
\* one that failed, which answers 500.
C7_ReplaceAllOrNothing ==
    /\ projections = hist.committed
    /\ last.err = ErrStore => last.status = StatusInternalServerError

C7_Witness ==
    /\ last.kind = "tsne"
    /\ last.err = ErrStore
    /\ projections /= <<>>
    /\ \E r \in Reqs : req[r].kind = "points" /\ pc[r] = "p_ecount"

\* C8: one request at a time, a recompute that finds no embeddings answers
\* points_processed = 0 without calling the engine and leaves the projections as
\* it found them.
C8_EmptyRecompute ==
    last.kind = "tsne" /\ last.err /= ErrMethod /\ last.pre.embeddings = <<>> =>
        /\ last.status = StatusOK
        /\ last.n = 0
        /\ ~last.called
        /\ projections = last.pre.projections

C8_Witness ==
    /\ Answered("tsne", StatusOK)
    /\ last.pre.embeddings = <<>>
    /\ prompts /= {}

\* C9: an ingest whose text is empty or only whitespace is answered 400, before
\* the provider is called, with the store as it was.
C9_BlankRejected ==
    last.kind = "embed" /\ last.err \notin {ErrMethod, ErrJSON} /\ Blank(last.text) =>
        /\ last.status = StatusBadRequest
        /\ ~last.called
        /\ Snapshot = last.pre

\* C10: one request at a time, an ingest whose provider call fails answers 500,
\* writes no embedding and no projection and at most the Prompt row of its
\* text; a later successful ingest of that text returns that row's id and the
\* embedding is stored under it.
C10_ProviderFailure ==
    /\ last.kind = "embed" /\ last.err = ErrOllama =>
          /\ last.status = StatusInternalServerError
          /\ embeddings = last.pre.embeddings
          /\ projections = last.pre.projections
          /\ last.pre.prompts \subseteq prompts
          /\ prompts \ last.pre.prompts \subseteq PromptRows(last.text)
          /\ Cardinality(prompts \ last.pre.prompts) <= 1
    /\ Answered("embed", StatusOK) /\ hist.failedId[last.text] /= 0 =>
          /\ last.id = hist.failedId[last.text]
          /\ PromptIdsOf(last.text) = {last.id}
          /\ last.id \in DOMAIN embeddings

C10_Witness ==
    /\ Answered("embed", StatusOK)
    /\ hist.failedId[last.text] /= 0
    /\ last.added

\* C11: an ingest whose InsertEmbedding fails although no embedding is stored
\* for the id (here: a vector of another length) answers 500, not 200.
C11_PutFailureReported ==
    /\ last.kind = "embed"
    /\ last.called
    /\ last.err /= ErrOllama
    /\ ~last.added
    /\ last.id \notin DOMAIN last.pre.embeddings
    => last.status = StatusInternalServerError

\* C12: an ingest or a listing during which InsertPrompt, GetEmbeddingCount or
\* GetProjectionCount returned an error answers 500.
C12_StoreFailureReported ==
    /\ last.kind \in {"embed", "points"}
    /\ last.dropped
    => last.status = StatusInternalServerError

\* C13: one request at a time, an ingest that gets a vector for an id that has
\* an embedding answers 200 and leaves every stored vector, and so the count,
\* as it was, also when the vector differs from the stored one.
C13_NeverOverwrites ==
    /\ last.kind = "embed"
    /\ last.called
    /\ last.err /= ErrOllama
    /\ last.id \in DOMAIN last.pre.embeddings
    => /\ last.status = StatusOK
       /\ ~last.added
       /\ embeddings = last.pre.embeddings

C13_Witness ==
    /\ Answered("embed", StatusOK)
    /\ last.id \in DOMAIN last.pre.embeddings
    /\ last.dim = EmbeddingDim
    /\ last.val /= embeddings[last.id].val

\* C14: one request at a time, after any ingest (answered 200, 400, 405 or 500)
\* the projections are the ones the request found; and when the ingest added an
\* embedding to a store whose two counts were equal, the counts now differ.
C14_IngestKeepsProjections ==
    last.kind = "embed" =>
        /\ projections = last.pre.projections
        /\ (/\ last.added
            /\ Cardinality(DOMAIN last.pre.embeddings)
                   = Cardinality(DOMAIN last.pre.projections))
           => NeedsTsneUpdate(GetEmbeddingCount, GetProjectionCount)

C14_Witness ==
    /\ Answered("embed", StatusOK)
    /\ last.added
    /\ last.pre.projections /= <<>>
    /\ DOMAIN last.pre.embeddings = DOMAIN last.pre.projections
    /\ projections = last.pre.projections

\* The table that holds exactly the rows (id, c) of a recompute's output.
TableOf(rows) ==
    [i \in {rows[k].id : k \in DOMAIN rows} |->
        rows[CHOOSE k \in DOMAIN rows : rows[k].id = i].c]

\* C15: under any interleaving the projections table changes only in the step
\* that commits a recompute, and then to exactly the rows that recompute
\* computed: never to a part of them or to a mixture of two recomputes' rows.
C15_RecomputesDoNotInterleave ==
    [][projections' /= projections =>
          /\ last'.kind = "tsne"
          /\ last'.status = StatusOK
          /\ Len(last'.points) = Cardinality(DOMAIN projections')
          /\ projections' = TableOf(last'.points)]_vars

C15_Witness ==
    /\ Answered("tsne", StatusOK)
    /\ last.called
    /\ projections = TableOf(last.points)
    /\ \E r \in Reqs :
          /\ pc[r] = "t_delete"
          /\ TableOf(loc[r].rows) /= projections
          /\ DOMAIN TableOf(loc[r].rows) \cap DOMAIN projections /= {}

\* C16: under any interleaving every step keeps every prompt row as it is,
\* gives a new row an id above every id handed out before, and leaves no two
\* rows with the same text or the same id.
C16_PromptsUniqueAndStable ==
    [][/\ prompts \subseteq prompts'
       /\ \A p \in prompts' \ prompts : p.id > seq /\ \A q \in prompts : p.id > q.id
       /\ \A p, q \in prompts' : (p.text = q.text \/ p.id = q.id) => p = q]_vars

C16_Witness ==
    /\ Cardinality(prompts) = 2
    /\ \E r \in Reqs :
          /\ pc[r] = "e_ecount"
          /\ loc[r].existingID = InsertPromptFailedId
          /\ PromptIdsOf(req[r].text) /= {}

\* C17: every row of projections has the id of a row of prompts.
C17_ProjectionsHavePrompts ==
    \A i \in DOMAIN projections : \E p \in prompts : p.id = i

\* C18: a listing answered while the store was at rest (a recompute with no
\* ingest beside it completed, no ingest arrived since) returns the projections
\* in strictly ascending id order, one point for each row of projections, each
\* with the text of the prompt of its id, and needs_update as the comparison
\* of the two counts.
C18_ListPoints ==
    Answered("points", StatusOK) /\ last.quiet =>
        /\ \A i, j \in DOMAIN last.points :
              i < j => last.points[i].id < last.points[j].id
        /\ {last.points[i].id : i \in DOMAIN last.points} = DOMAIN projections
        /\ \A i \in DOMAIN last.points :
              [id |-> last.points[i].id, text |-> last.points[i].text] \in prompts
        /\ last.flag = NeedsTsneUpdate(GetEmbeddingCount, GetProjectionCount)

\* C19: an embedding that was stored when a recompute arrived (one beside which
\* no ingest ran) keeps a projection from that recompute's successful
\* completion on.
C19_ProjectionsNotLost == hist.covered \subseteq DOMAIN projections

\* C20: with an engine that returns one row per input id, in every state of
\* every interleaving each projection's id is the id of a stored embedding, so
\* there are at most as many projections as embeddings, and the two counts are
\* equal exactly when every embedding has a projection.
C20_ProjectionsWithinEmbeddings ==
    /\ DOMAIN projections \subseteq DOMAIN embeddings
    /\ GetProjectionCount <= GetEmbeddingCount
    /\ ~NeedsTsneUpdate(GetEmbeddingCount, GetProjectionCount)
          <=> DOMAIN embeddings \subseteq DOMAIN projections

C20_Witness ==
    /\ projections /= <<>>
    /\ GetProjectionCount < GetEmbeddingCount
    /\ \E r \in Reqs : pc[r] = "t_insert" /\ Len(loc[r].rows) = GetEmbeddingCount

\* C21: under any interleaving every row of embeddings has the id of a row of
\* prompts.
C21_EmbeddingsHavePrompts ==
    \A i \in DOMAIN embeddings : \E p \in prompts : p.id = i

\* C22: under any interleaving a listing that answers needs_update = false
\* returns as many points as the embeddings it counted (last.n is the count
\* GetEmbeddingCount gave it), one for each.
C22_ListPointsOneState ==
    Answered("points", StatusOK) /\ ~last.flag => Len(last.points) = last.n

Malformed(blob) == blob.len % FloatBytes /= 0

\* C23: one request at a time, no recompute hands the engine the row of a
\* stored blob whose length is not a multiple of 4, and a recompute that finds
\* such a blob answers 500 with GetAllEmbeddings' error.
C23_MalformedBlobRejected ==
    /\ \A r \in Reqs :
          pc[r] = "t_engine" =>
              \A k \in DOMAIN loc[r].rows : ~Malformed(embeddings[loc[r].rows[k].id])
    /\ (/\ last.kind = "tsne"
        /\ last.err /= ErrMethod
        /\ \E i \in DOMAIN last.pre.embeddings : Malformed(last.pre.embeddings[i]))
       => /\ last.status = StatusInternalServerError
          /\ last.err = ErrEmbeddings
====
